---- MODULE Spec2Model ----
(***************************************************************************)
(* A model of src/lib/hexo/post.ts.                                        *)
(*                                                                         *)
(* Four state machines share the module, each with its own variables and   *)
(* its own specification; the variables of the other three stay unchanged. *)
(*                                                                         *)
(*   SpecScan      class PostRenderEscape: one escape table (stored) and   *)
(*                 the text its methods are applied to.                    *)
(*   SpecScaffold  Post._renderScaffold: the merge of the caller's         *)
(*                 metadata into the front matter parsed from a scaffold.  *)
(*   SpecPost      Post.publish and the Post.create it delegates to, one   *)
(*                 action per promise callback or file-system call.        *)
(*   SpecRender    Post.render, one action per promise callback; a second  *)
(*                 specification, SpecRenderPair, has two calls in flight. *)
(*                                                                         *)
(* Text is a sequence of characters.  A character is a one-letter string;  *)
(* the fixed parts of a placeholder, which no scanner state looks inside,  *)
(* are single atoms: "<!--swig|" for "<!--swig" plus U+FFFC, "&lt;!--swig|" *)
(* for its HTML-escaped form, "-->" and "--&gt;" for the two closers.      *)
(***************************************************************************)
EXTENDS Integers, Sequences, FiniteSets, TLC

VARIABLES
    \* ---- PostRenderEscape (SpecScan)
    input,      \* the text the first method call was given
    text,       \* the text as returned by the last method call
    stored,     \* PostRenderEscape.stored, the escape table
    calls,      \* the method calls made so far, in order
    thrown,     \* "none", or the error the last call threw
    \* ---- _renderScaffold (SpecScaffold)
    sdata,      \* the caller's metadata record (data)
    scaffold,   \* the scaffold _getScaffold resolved, split by yfmSplit
    rendered,   \* what tag.render made of the scaffold's front matter
    obj,        \* the front-matter object: parsed, then merged
    spc,        \* position in _renderScaffold
    \* ---- publish / create (SpecPost)
    pc,         \* position of publish in its promise chain
    data,       \* the metadata record publish and create mutate
    handed,     \* the record as it was when it was handed to create
    files,      \* file system: path -> content, for the files that exist
    dirs,       \* file system: the directories that exist
    listing,    \* what listDir(draftDir) returns
    src,        \* publish's src
    result,     \* publish's result record
    cpath,      \* create: outcome of the new_post_path filter
    ccontent,   \* create: outcome of _renderScaffold
    cwrite,     \* create: state of writeFile(path, content)
    cfolder,    \* create: state of createAssetFolder(path, ...)
    cstate,     \* create: state of the promise create returns
    created,    \* what create resolved with (path, content)
    events,     \* the 'new' events emitted, in order
    log,        \* the file-system calls that took effect, in order
    outcome,    \* what publish reported to its caller
    cfg,        \* the site configuration and the call's arguments
    \* ---- render (SpecRender, SpecRenderPair), one entry per call
    ropts,      \* the call's arguments and what the site has registered
    rpc,        \* position of the call in its promise chain
    rcontent,   \* data.content of the call's render-data record
    rvalue,     \* the value the promise chain carries to the next callback
    tables,     \* the stored array of each PostRenderEscape object
    rlog,       \* hooks, escape methods, renderer and engine calls, in order
    rout        \* what the call reported to its caller

scanVars == <<input, text, stored, calls, thrown>>
scafVars == <<sdata, scaffold, rendered, obj, spc>>
postVars == <<pc, data, handed, files, dirs, listing, src, result, cpath, ccontent,
              cwrite, cfolder, cstate, created, events, log, outcome, cfg>>
renderVars == <<ropts, rpc, rcontent, rvalue, tables, rlog, rout>>
vars == <<scanVars, scafVars, postVars, renderVars>>

----------------------------------------------------------------------------
(* Bounds *)

MaxFrags == 3      \* an input text is at most this many fragments long
MaxCalls == 3      \* method calls made on one PostRenderEscape
MaxDataKeys == 2   \* fields of a metadata record given to _renderScaffold
MaxPieces == 2     \* a text given to render is at most this many pieces long

----------------------------------------------------------------------------
(* Sequence helpers *)

RECURSIVE Flatten(_)
Flatten(ss) == IF ss = <<>> THEN <<>> ELSE Head(ss) \o Flatten(Tail(ss))

\* sub occurs in s as a contiguous run
HasSub(s, sub) ==
    \E i \in 0..(Len(s) - Len(sub)) :
        \A k \in 1..Len(sub) : s[i + k] = sub[k]

----------------------------------------------------------------------------
(* PostRenderEscape: placeholders and the escape table *)

SwigOpeners == {"<!--swig|", "&lt;!--swig|"}
Closers     == {"-->", "--&gt;"}
DigitChars  == <<"0", "1", "2", "3", "4", "5", "6", "7", "8", "9">>
IsDigit(c)  == \E d \in 1..10 : DigitChars[d] = c

\* a consumed entry: cache[index] = null.  assert() treats null, undefined
\* and '' alike, and no escape call stores '', so one value stands for them.
Null == <<>>

\* `${n}`: the decimal digits of n
RECURSIVE Decimal(_)
Decimal(n) == IF n < 10 THEN <<DigitChars[n + 1]>>
              ELSE Decimal(n \div 10) \o <<DigitChars[(n % 10) + 1]>>

\* cache[index] for the captured digit string: the entry whose property name
\* is exactly that string, else undefined (here -1): "00" names no entry.
Lookup(cache, digits) ==
    IF \E n \in 0..(Len(cache) - 1) : Decimal(n) = digits
    THEN CHOOSE n \in 0..(Len(cache) - 1) : Decimal(n) = digits
    ELSE -1

\* `<!--${flag}` plus U+FFFC
Opener(flag) == IF flag = "swig" THEN "<!--swig|" ELSE "<!--code|"

\* escapeContent(cache, flag, str): push str, return the placeholder text
EscapeContent(cache, flag, str) ==
    [cache |-> Append(cache, str),
     text  |-> <<Opener(flag)>> \o Decimal(Len(cache)) \o <<"-->">>]

\* restoreContent(cache)(_, index): assert(cache[index]), take the entry and
\* null it.  ok = FALSE is the AssertionError; nothing is returned then.
RestoreContentSilent(cache, digits) ==
    LET n == Lookup(cache, digits) IN
    IF n = -1 \/ cache[n + 1] = Null
    THEN [ok |-> TRUE, value |-> <<>>, cache |-> cache]
    ELSE [ok |-> TRUE, value |-> cache[n + 1],
          cache |-> [cache EXCEPT ![n + 1] = Null]]

RestoreContent(cache, digits) ==
    LET n == Lookup(cache, digits) IN
    IF n = -1 \/ cache[n + 1] = Null
    THEN [ok |-> FALSE, value |-> <<>>, cache |-> cache]
    ELSE [ok |-> TRUE, value |-> cache[n + 1],
          cache |-> [cache EXCEPT ![n + 1] = Null]]

\* The longest run of digits of str that starts at position i (\d+, greedy)
RECURSIVE DigitRun(_, _)
DigitRun(str, i) ==
    IF i <= Len(str) /\ IsDigit(str[i]) THEN <<str[i]>> \o DigitRun(str, i + 1)
    ELSE <<>>

\* str.replace(placeholder regex, restoreContent(cache)) from position i on:
\* matches are taken left to right, the replacement text is not rescanned,
\* and the first failed assertion ends the call.
\*   /(?:<|&lt;)!--swig(U+FFFC)(\d+)--(?:>|&gt;)/g
RECURSIVE ReplacePlaceholders(_, _, _, _, _)
ReplacePlaceholders(str, openers, i, acc, cache) ==
    IF i > Len(str) THEN [ok |-> TRUE, text |-> acc, cache |-> cache]
    ELSE
      LET digits == DigitRun(str, i + 1)
          j      == i + 1 + Len(digits)
          match  == /\ str[i] \in openers
                    /\ digits # <<>>
                    /\ j <= Len(str)
                    /\ str[j] \in Closers
      IN IF match
         THEN LET r == RestoreContent(cache, digits) IN
              IF r.ok
              THEN ReplacePlaceholders(str, openers, j + 1, acc \o r.value, r.cache)
              ELSE [ok |-> FALSE, text |-> acc, cache |-> r.cache]
         ELSE ReplacePlaceholders(str, openers, i + 1, Append(acc, str[i]), cache)

\* restoreAllSwigTags(str)
RestoreAllSwigTags(str, cache) ==
    ReplacePlaceholders(str, SwigOpeners, 1, <<>>, cache)

----------------------------------------------------------------------------
(* PostRenderEscape.escapeAllSwigTags *)

NotBrace(c) == c # "{" /\ c # "}"

\* swigTagRegex.test(str), a fresh regex so the search starts at 0:
\*   /\{[^{}]+\}|\{#[^\}\#]+\}|\{%[^\%]+\}%/g
SwigTagRegexTest(str) ==
    \E i \in 1..Len(str) : \E j \in (i + 1)..Len(str) :
        \/ /\ str[i] = "{"                                   \* \{[^{}]+\}
           /\ j >= i + 2 /\ str[j] = "}"
           /\ \A k \in (i + 1)..(j - 1) : NotBrace(str[k])
        \/ /\ str[i] = "{" /\ str[i + 1] = "#"               \* \{#[^\}\#]+\}
           /\ j >= i + 3 /\ str[j] = "}"
           /\ \A k \in (i + 2)..(j - 1) : str[k] # "}" /\ str[k] # "#"
        \/ /\ str[i] = "{" /\ str[i + 1] = "%"               \* \{%[^\%]+\}%
           /\ j >= i + 4 /\ str[j] = "%" /\ str[j - 1] = "}"
           /\ \A k \in (i + 2)..(j - 2) : str[k] # "%"

\* The loop state: i is the index of the character about to be read
\* (1-based), output the pieces pushed so far (joined at the end).
ScanStart(cache) ==
    [i |-> 1, currentState |-> "PLAINTEXT", currentBuffer |-> <<>>,
     output |-> <<>>, cache |-> cache]

NextChar(str, i) == IF i + 1 <= Len(str) THEN str[i + 1] ELSE "undefined"

\* case State.PLAINTEXT
PlainStepDropsBrace(str, s) ==
    LET char == str[s.i]  nextChar == NextChar(str, s.i) IN
    IF char = "{" /\ nextChar = "{"
    THEN [s EXCEPT !.currentState = "SWIG_VAR", !.i = s.i + 2]
    ELSE IF char = "{" /\ nextChar = "#"
    THEN [s EXCEPT !.currentState = "SWIG_COMMENT", !.i = s.i + 2]
    ELSE IF char = "{" /\ nextChar = "%"
    THEN [s EXCEPT !.currentState = "SWIG_TAG", !.i = s.i + 2,
                   !.currentBuffer = <<>>]
    ELSE IF char = "{"
    THEN [s EXCEPT !.i = s.i + 1]
    ELSE [s EXCEPT !.output = Append(s.output, char), !.i = s.i + 1]

PlainStep(str, s) ==
    LET char == str[s.i]  nextChar == NextChar(str, s.i) IN
    IF char = "{" /\ nextChar = "{"
    THEN [s EXCEPT !.currentState = "SWIG_VAR", !.i = s.i + 2]
    ELSE IF char = "{" /\ nextChar = "#"
    THEN [s EXCEPT !.currentState = "SWIG_COMMENT", !.i = s.i + 2]
    ELSE IF char = "{" /\ nextChar = "%"
    THEN [s EXCEPT !.currentState = "SWIG_TAG", !.i = s.i + 2,
                   !.currentBuffer = <<>>]
    ELSE [s EXCEPT !.output = Append(s.output, char), !.i = s.i + 1]

\* case State.SWIG_VAR
VarStep(str, s) ==
    LET char == str[s.i]  nextChar == NextChar(str, s.i) IN
    IF char = "}" /\ nextChar = "}"
    THEN LET e == EscapeContent(s.cache, "swig",
                                <<"{", "{">> \o s.currentBuffer \o <<"}", "}">>)
         IN [s EXCEPT !.i = s.i + 2, !.currentState = "PLAINTEXT",
                      !.output = s.output \o e.text, !.cache = e.cache,
                      !.currentBuffer = <<>>]
    ELSE [s EXCEPT !.currentBuffer = Append(s.currentBuffer, char),
                   !.i = s.i + 1]

\* case State.SWIG_COMMENT
CommentStepKeeps(str, s) ==
    LET char == str[s.i]  nextChar == NextChar(str, s.i) IN
    IF char = "#" /\ nextChar = "}"
    THEN LET e == EscapeContent(s.cache, "swig",
                                <<"{", "#">> \o s.currentBuffer \o <<"#", "}">>)
         IN [s EXCEPT !.i = s.i + 2, !.currentState = "PLAINTEXT",
                      !.output = s.output \o e.text, !.cache = e.cache,
                      !.currentBuffer = <<>>]
    ELSE [s EXCEPT !.currentBuffer = Append(s.currentBuffer, char),
                   !.i = s.i + 1]

CommentStep(str, s) ==
    LET char == str[s.i]  nextChar == NextChar(str, s.i) IN
    IF char = "#" /\ nextChar = "}"
    THEN [s EXCEPT !.i = s.i + 2, !.currentState = "PLAINTEXT",
                   !.currentBuffer = <<>>]
    ELSE [s EXCEPT !.i = s.i + 1]

\* case State.SWIG_TAG: both branches of isFullTag push the same placeholder
TagStep(str, s) ==
    LET char == str[s.i]  nextChar == NextChar(str, s.i) IN
    IF char = "%" /\ nextChar = "}"
    THEN LET isFullTag == HasSub(str, <<"e", "n", "d">> \o s.currentBuffer)
             tag == <<"{", "%">> \o s.currentBuffer \o <<"%", "}">>
             e == IF isFullTag THEN EscapeContent(s.cache, "swig", tag)
                               ELSE EscapeContent(s.cache, "swig", tag)
         IN [s EXCEPT !.i = s.i + 2, !.currentState = "PLAINTEXT",
                      !.output = s.output \o e.text, !.cache = e.cache,
                      !.currentBuffer = <<>>]
    ELSE [s EXCEPT !.currentBuffer = Append(s.currentBuffer, char),
                   !.i = s.i + 1]

\* the for loop: one character (or one two-character marker) per turn
RECURSIVE ScanLoop(_, _)
ScanLoop(str, s) ==
    IF s.i > Len(str) THEN s
    ELSE ScanLoop(str,
           CASE s.currentState = "PLAINTEXT"    -> PlainStep(str, s)
             [] s.currentState = "SWIG_VAR"     -> VarStep(str, s)
             [] s.currentState = "SWIG_COMMENT" -> CommentStep(str, s)
             [] s.currentState = "SWIG_TAG"     -> TagStep(str, s))

\* escapeAllSwigTags(str): the text returned and the table afterwards.
\* Whatever is still buffered when the loop ends is not part of output.
EscapeAllSwigTags(str, cache) ==
    IF ~SwigTagRegexTest(str)
    THEN [text |-> str, cache |-> cache]
    ELSE LET s == ScanLoop(str, ScanStart(cache)) IN
         [text |-> s.output, cache |-> s.cache]

----------------------------------------------------------------------------
(* SpecScan: method calls on one PostRenderEscape *)

\* The pieces input texts are built from: the tag markers, a letter, a lone
\* brace, a placeholder that names index 0, and one whole tag of each kind.
Fragments ==
    { <<"{", "{">>, <<"}", "}">>, <<"{", "#">>, <<"#", "}">>,
      <<"{", "%">>, <<"%", "}">>, <<"x">>, <<"{">>,
      <<"<!--swig|", "0", "-->">>,
      <<"{", "{", "x", "}", "}">>,
      <<"{", "#", "x", "#", "}">>,
      <<"{", "%", "x", "%", "}">> }

Inputs ==
    UNION { { Flatten(f) : f \in [1..n -> Fragments] } : n \in 0..MaxFrags }

InitScan ==
    /\ input \in Inputs
    /\ text = input
    /\ stored = <<>>
    /\ calls = <<>>
    /\ thrown = "none"

\* new PostRenderEscape().escapeAllSwigTags(text), the first call on the
\* object, as in render
CallEscapeAllSwigTags ==
    /\ calls = <<>>
    /\ LET r == EscapeAllSwigTags(text, stored) IN
         /\ text' = r.text
         /\ stored' = r.cache
    /\ calls' = Append(calls, "escapeAllSwigTags")
    /\ thrown' = "none"
    /\ UNCHANGED input
    /\ UNCHANGED <<scafVars, postVars, renderVars>>

\* restoreAllSwigTags(text); a failed assertion leaves the caller without a
\* new text, the entries consumed before it stay consumed
CallRestoreAllSwigTags ==
    /\ Len(calls) < MaxCalls
    /\ LET r == RestoreAllSwigTags(text, stored) IN
         /\ text' = IF r.ok THEN r.text ELSE text
         /\ stored' = r.cache
         /\ thrown' = IF r.ok THEN "none" ELSE "AssertionError"
    /\ calls' = Append(calls, "restoreAllSwigTags")
    /\ UNCHANGED input
    /\ UNCHANGED <<scafVars, postVars, renderVars>>

NextScan ==
    \/ CallEscapeAllSwigTags
    \/ CallRestoreAllSwigTags

\* the other two machines at rest
IdleScaffold ==
    /\ sdata = <<>> /\ scaffold = <<>> /\ rendered = <<>> /\ obj = <<>>
    /\ spc = "idle"

IdleScan ==
    /\ input = <<>> /\ text = <<>> /\ stored = <<>> /\ calls = <<>>
    /\ thrown = "none"


----------------------------------------------------------------------------
(* Claims about PostRenderEscape (SpecScan) *)

EscapeThenRestore == <<"escapeAllSwigTags", "restoreAllSwigTags">>

PlaceholderAtoms == SwigOpeners \cup Closers \cup {"<!--code|", "&lt;!--code|"}
NoPlaceholderText(str) == \A i \in 1..Len(str) : str[i] \notin PlaceholderAtoms

\* no {{, {# or {% anywhere in str
NoOpener(str) ==
    \A i \in 1..(Len(str) - 1) :
        ~(str[i] = "{" /\ str[i + 1] \in {"{", "#", "%"})

\* C6: for every text T that contains the variable tag {{x}},
\* restoreAllSwigTags(escapeAllSwigTags(T)) returns T.  Stated for the texts
\* that begin with the tag and hold no comment opener and no placeholder
\* text, where nothing but the round trip itself can change the text.
C6_VarTagRoundTrip ==
    ( /\ calls = EscapeThenRestore
      /\ Len(input) >= 5
      /\ SubSeq(input, 1, 5) = <<"{", "{", "x", "}", "}">>
      /\ ~HasSub(input, <<"{", "#">>)
      /\ NoPlaceholderText(input) )
    => (thrown = "none" /\ text = input)

\* C7: on a text with no {{, {# or {% opener escapeAllSwigTags returns the
\* text unchanged (so with no placeholder in it) and appends nothing to the
\* escape table.
C7_PlainTextUnchanged ==
    (calls = <<"escapeAllSwigTags">> /\ NoOpener(input))
    => (text = input /\ stored = <<>>)

\* the scanner really ran over an opener-free text: the pre-check regex
\* matched a single-brace group
C7_Witness ==
    /\ calls = <<"escapeAllSwigTags">>
    /\ NoOpener(input)
    /\ SwigTagRegexTest(input)
    /\ text = input

\* T = before {# comment #} after, with the comment opened in plain text and
\* closed by the first #} after it, and no brace around it
IsCommentSplit(str, i, j) ==
    /\ 1 <= i /\ i + 3 <= j /\ j <= Len(str)
    /\ str[i] = "{" /\ str[i + 1] = "#"
    /\ str[j - 1] = "#" /\ str[j] = "}"
    /\ \A k \in (i + 2)..(j - 2) : ~(str[k] = "#" /\ str[k + 1] = "}")
    /\ \A k \in (1..(i - 1)) \cup ((j + 1)..Len(str)) : str[k] # "{"

AroundComment(str, i, j) == SubSeq(str, 1, i - 1) \o SubSeq(str, j + 1, Len(str))

RECURSIVE PlaceholderIndices(_, _)
PlaceholderIndices(str, i) ==
    IF i > Len(str) THEN <<>>
    ELSE LET digits == DigitRun(str, i + 1)
             j      == i + 1 + Len(digits)
         IN IF /\ str[i] \in SwigOpeners /\ digits # <<>>
               /\ j <= Len(str) /\ str[j] \in Closers
            THEN <<digits>> \o PlaceholderIndices(str, j + 1)
            ELSE PlaceholderIndices(str, i + 1)

\* str with every swig placeholder replaced by the table entry it names
RECURSIVE Substituted(_, _, _)
Substituted(str, i, cache) ==
    IF i > Len(str) THEN <<>>
    ELSE LET digits == DigitRun(str, i + 1)
             j      == i + 1 + Len(digits)
         IN IF /\ str[i] \in SwigOpeners /\ digits # <<>>
               /\ j <= Len(str) /\ str[j] \in Closers
            THEN cache[Lookup(cache, digits) + 1] \o Substituted(str, j + 1, cache)
            ELSE <<str[i]>> \o Substituted(str, i + 1, cache)

\* index k of idx cannot be restored: no escape call produced it, or it was
\* consumed before, by an earlier call or earlier in this text
NotRestorable(idx, k, cache) ==
    \/ Lookup(cache, idx[k]) = -1
    \/ cache[Lookup(cache, idx[k]) + 1] = Null
    \/ \E m \in 1..(k - 1) : idx[m] = idx[k]

\* C9: a restoration fails with an assertion error exactly when one of its
\* placeholders names an index no escape call produced or an index already
\* restored; it then returns no text.  Otherwise every placeholder is
\* replaced by its own entry and each of those entries is consumed.
C9_RestoreOnceOrFail ==
    [][ (calls' = Append(calls, "restoreAllSwigTags")) =>
          LET idx == PlaceholderIndices(text, 1)
              bad == \E k \in 1..Len(idx) : NotRestorable(idx, k, stored)
          IN /\ bad => (thrown' = "AssertionError" /\ text' = text)
             /\ ~bad => /\ thrown' = "none"
                        /\ text' = Substituted(text, 1, stored)
                        /\ \A k \in 1..Len(idx) :
                              stored'[Lookup(stored, idx[k]) + 1] = Null
                        /\ Len(stored') = Len(stored)
       ]_vars

\* index 0 was restored once, and its second restoration failed
C9_Witness ==
    /\ calls = EscapeThenRestore
    /\ thrown = "AssertionError"
    /\ stored = <<Null>>

\* The closer of the tag opened at i ({{ by }}, {# by #}, {% by %}): the
\* position of the first one that starts after the opener, 0 if there is none
CloserOf(str, i) ==
    LET c == IF str[i + 1] = "{" THEN "}" ELSE str[i + 1]
        ends == { j \in (i + 2)..(Len(str) - 1) : str[j] = c /\ str[j + 1] = "}" }
    IN IF ends = {} THEN 0 ELSE CHOOSE j \in ends : \A k \in ends : j <= k

\* str from position i on with every closed comment removed: a closed
\* variable or block tag is kept whole, an opener that is never closed is
\* kept as the text it is
RECURSIVE WithoutClosedComments(_, _)
WithoutClosedComments(str, i) ==
    IF i > Len(str) THEN <<>>
    ELSE IF /\ str[i] = "{" /\ NextChar(str, i) \in {"{", "#", "%"}
            /\ CloserOf(str, i) # 0
    THEN LET j == CloserOf(str, i) IN
         (IF str[i + 1] = "#" THEN <<>> ELSE SubSeq(str, i, j + 1))
         \o WithoutClosedComments(str, j + 2)
    ELSE <<str[i]>> \o WithoutClosedComments(str, i + 1)

\* C20: for every text T with no placeholder text in it, also one with an
\* opener that is never closed, restoreAllSwigTags(escapeAllSwigTags(T))
\* succeeds and returns T with each closed comment removed.
C20_OnlyClosedCommentsDropped ==
    (calls = EscapeThenRestore /\ NoPlaceholderText(input)) =>
        (thrown = "none" /\ text = WithoutClosedComments(input, 1))

----------------------------------------------------------------------------
(* Post._renderScaffold *)

\* const preservedKeys
preservedKeys == {"title", "slug", "path", "layout", "date", "content"}

\* the field names of the model: the reserved ones and two others
FieldNames == preservedKeys \cup {"tags", "author"}

\* Values: a string (its characters; the one chosen needs quoting and
\* escaping), a moment, or null/undefined
Str(chars) == [type |-> "string", v |-> chars]
Moment     == [type |-> "moment", v |-> <<"T">>]
JsNull     == [type |-> "null", v |-> <<>>]
DataValues == {Str(<<"a", ":", "\"">>), Moment}

\* item.utc().format('YYYY-MM-DD HH:mm:ss'): the formatted time, one atom
FormatMoment(m) == Str(<<"2020-01-01 00:00:00">>)

\* the test of prepareFrontMatter on a string item
NeedsQuote(chars, jsonMode) ==
    \/ jsonMode
    \/ \E i \in 1..Len(chars) : chars[i] \in {":", "{", "}", "[", "]", "'", "\""}
    \/ (Len(chars) >= 1 /\ chars[1] = "#")
    \/ (Len(chars) >= 2 /\ chars[1] = "!" /\ chars[2] = "!")

\* item.replace(/"/g, '\\"')
RECURSIVE EscapeQuotes(_)
EscapeQuotes(chars) ==
    IF chars = <<>> THEN <<>>
    ELSE (IF Head(chars) = "\"" THEN <<"\\", "\"">> ELSE <<Head(chars)>>)
         \o EscapeQuotes(Tail(chars))

\* prepareFrontMatter on one item
PrepareItem(item, jsonMode) ==
    IF item.type = "moment" THEN FormatMoment(item)
    ELSE IF item.type = "string" /\ NeedsQuote(item.v, jsonMode)
    THEN Str(<<"\"">> \o EscapeQuotes(item.v) \o <<"\"">>)
    ELSE item

\* prepareFrontMatter({ ...data }, jsonMode): a prepared copy, data untouched
prepareFrontMatter(d, jsonMode) ==
    [k \in DOMAIN d |-> PrepareItem(d[k], jsonMode)]

\* A scaffold's front-matter block has, for some field names, a line of one
\* of three kinds:  key: 7 / key: {{ key }} / key:
LineKinds == {"literal", "variable", "empty"}
ScaffoldKeys == {"title", "date", "tags"}
Scaffolds ==
    UNION { [ks -> LineKinds] : ks \in SUBSET ScaffoldKeys }

\* tag.render(splitted.data, frontMatter): every {{ key }} becomes the text
\* of the prepared value, nothing when the variable is not defined
RenderLine(kind, key, frontMatter) ==
    CASE kind = "literal"  -> <<"7">>
      [] kind = "empty"    -> <<>>
      [] kind = "variable" -> IF key \in DOMAIN frontMatter
                              THEN frontMatter[key].v ELSE <<>>

\* the text between two double quotes, \" read back as "
RECURSIVE Unescape(_)
Unescape(chars) ==
    IF chars = <<>> THEN <<>>
    ELSE IF Len(chars) >= 2 /\ chars[1] = "\\" /\ chars[2] = "\""
    THEN <<"\"">> \o Unescape(Tail(Tail(chars)))
    ELSE <<Head(chars)>> \o Unescape(Tail(chars))

\* load(frontMatter) / JSON.parse on the value of one line: nothing is null,
\* a double-quoted scalar is its content, a timestamp is a date, digits are
\* a number, anything else a plain scalar
ParseValue(chars) ==
    IF chars = <<>> THEN JsNull
    ELSE IF Len(chars) >= 2 /\ chars[1] = "\"" /\ chars[Len(chars)] = "\""
    THEN Str(Unescape(SubSeq(chars, 2, Len(chars) - 1)))
    ELSE IF chars = <<"2020-01-01 00:00:00">>
    THEN [type |-> "date", v |-> chars]
    ELSE IF \A i \in 1..Len(chars) : IsDigit(chars[i])
    THEN [type |-> "number", v |-> chars]
    ELSE Str(chars)

\* obj[key] == null: no such key, or a null value
IsNullish(o, key) == key \notin DOMAIN o \/ o[key].type = "null"

\* Object.keys(data).filter(...).forEach(key => obj[key] = data[key])
MergeAbsentOnly(o, d) ==
    [k \in DOMAIN o \cup (DOMAIN d \ preservedKeys) |->
        IF k \in DOMAIN o THEN o[k] ELSE d[k]]

MergeCopiesReserved(o, d) ==
    [k \in DOMAIN o \cup {key \in DOMAIN d : IsNullish(o, key)} |->
        IF k \in DOMAIN d /\ IsNullish(o, k) THEN d[k] ELSE o[k]]

Merge(o, d) ==
    [k \in DOMAIN o \cup {key \in DOMAIN d :
                              key \notin preservedKeys /\ IsNullish(o, key)} |->
        IF k \in DOMAIN d /\ k \notin preservedKeys /\ IsNullish(o, k)
        THEN d[k] ELSE o[k]]

MetadataRecords ==
    UNION { [ks -> DataValues] :
              ks \in {x \in SUBSET FieldNames : Cardinality(x) <= MaxDataKeys} }

InitScaffold ==
    /\ sdata \in MetadataRecords
    /\ scaffold \in { [lines |-> l, separator |-> sep] :
                        l \in Scaffolds, sep \in {"---", ";;;"} }
    /\ rendered = <<>>
    /\ obj = <<>>
    /\ spc = "getScaffold"

\* splitted.separator.startsWith(';')
JsonMode(sc) == sc.separator = ";;;"

\* first callback: split, prepare a copy of data, render the front matter
RenderFrontMatter ==
    /\ spc = "getScaffold"
    /\ LET frontMatter == prepareFrontMatter(sdata, JsonMode(scaffold)) IN
         rendered' = [k \in DOMAIN scaffold.lines |->
                         RenderLine(scaffold.lines[k], k, frontMatter)]
    /\ spc' = "rendered"
    /\ UNCHANGED <<sdata, scaffold, obj>>
    /\ UNCHANGED <<scanVars, postVars, renderVars>>

\* tag.render rejects: _renderScaffold rejects with it
RenderFrontMatterFails ==
    /\ spc = "getScaffold"
    /\ spc' = "failed"
    /\ UNCHANGED <<sdata, scaffold, rendered, obj>>
    /\ UNCHANGED <<scanVars, postVars, renderVars>>

\* second callback, first half: parse the rendered front matter
ParseFrontMatter ==
    /\ spc = "rendered"
    /\ obj' = [k \in DOMAIN rendered |-> ParseValue(rendered[k])]
    /\ spc' = "parsed"
    /\ UNCHANGED <<sdata, scaffold, rendered>>
    /\ UNCHANGED <<scanVars, postVars, renderVars>>

\* second callback, second half: merge data into obj; obj is what
\* yfmStringify is given
MergeFrontMatter ==
    /\ spc = "parsed"
    /\ obj' = Merge(obj, sdata)
    /\ spc' = "merged"
    /\ UNCHANGED <<sdata, scaffold, rendered>>
    /\ UNCHANGED <<scanVars, postVars, renderVars>>

NextScaffold ==
    \/ RenderFrontMatter
    \/ RenderFrontMatterFails
    \/ ParseFrontMatter
    \/ MergeFrontMatter


----------------------------------------------------------------------------
(* Claims about _renderScaffold (SpecScaffold) *)

\* C10 as stated: no reserved field supplied in the metadata is a top-level
\* key of the merged front-matter object.
C10_NoReservedKeyInMerged ==
    spc = "merged" =>
        \A k \in preservedKeys \cap DOMAIN sdata : k \notin DOMAIN obj

\* C10 as amended: the merge adds no reserved field.  A reserved field is a
\* top-level key of the merged object exactly when the front matter parsed
\* from the rendered scaffold has that key, and it keeps the parsed value.
C10_MergeAddsNoReservedKey ==
    spc = "merged" =>
        \A k \in preservedKeys :
            /\ k \in DOMAIN obj <=> k \in DOMAIN rendered
            /\ k \in DOMAIN obj => obj[k] = ParseValue(rendered[k])

\* reserved fields of the metadata were left out by a merge that did copy a
\* field which is not reserved
C10_Witness ==
    /\ spc = "merged"
    /\ \E k \in preservedKeys \cap DOMAIN sdata : k \notin DOMAIN obj
    /\ \E k \in DOMAIN sdata \ preservedKeys :
          k \notin DOMAIN rendered /\ k \in DOMAIN obj

\* the front matter parsed from the rendered scaffold
Parsed == [k \in DOMAIN rendered |-> ParseValue(rendered[k])]

\* C16 as stated: the merged object has every field of the caller's
\* metadata that is not reserved and is not a key of the parsed front matter,
\* with the caller's own value; every key of the parsed front matter keeps
\* the value parsed from the scaffold; no reserved field is copied.
C16_PresentKeysKeepScaffoldValue ==
    spc = "merged" =>
        /\ \A k \in DOMAIN sdata \ (preservedKeys \cup DOMAIN Parsed) :
              k \in DOMAIN obj /\ obj[k] = sdata[k]
        /\ \A k \in DOMAIN Parsed : obj[k] = Parsed[k]
        /\ \A k \in preservedKeys \ DOMAIN Parsed : k \notin DOMAIN obj

\* C16 as amended: the merged object has every field of the caller's
\* metadata that is not reserved and whose parsed value is missing or null,
\* with the caller's own value (not the quoted or formatted one the scaffold
\* was rendered with); every other key of the parsed front matter keeps the
\* parsed value; no reserved field is copied.
C16_MergeFillsMissingAndNull ==
    spc = "merged" =>
        /\ DOMAIN obj = DOMAIN Parsed \cup (DOMAIN sdata \ preservedKeys)
        /\ \A k \in DOMAIN obj :
              obj[k] = IF /\ k \in DOMAIN sdata \ preservedKeys
                          /\ (k \notin DOMAIN Parsed \/ Parsed[k] = JsNull)
                       THEN sdata[k] ELSE Parsed[k]

\* the scaffold has an empty tags line and a title line; the caller's tags,
\* a string that was quoted for rendering, filled the empty line unquoted
C16_Witness ==
    /\ spc = "merged"
    /\ "tags" \in DOMAIN rendered /\ Parsed["tags"] = JsNull
    /\ "tags" \in DOMAIN sdata /\ sdata["tags"].type = "string"
    /\ obj["tags"] = sdata["tags"]
    /\ obj["tags"] # PrepareItem(sdata["tags"], JsonMode(scaffold))
    /\ "title" \in DOMAIN obj

----------------------------------------------------------------------------
(* Paths, metadata values and the external helpers publish and create use *)

\* A path is a sequence of name pieces: letters, "/" and extensions
Exts == {".md", ".css"}
draftDir == <<"_drafts">>
postDir  == <<"_posts">>

\* join(dir, item)
Join(dir, item) == dir \o <<"/">> \o item

\* extname(str): the extension that ends the last name of the path, if that
\* name has more than the extension
ExtLen(path) ==
    IF /\ Len(path) >= 2
       /\ path[Len(path)] \in Exts
       /\ path[Len(path) - 1] # "/"
    THEN 1 ELSE 0

\* removeExtname(str)
removeExtname(path) == SubSeq(path, 1, Len(path) - ExtLen(path))

\* basename(target): what follows the last "/"
RECURSIVE Basename(_)
Basename(path) ==
    IF path = <<>> \/ path[Len(path)] = "/" THEN <<>>
    ELSE Basename(SubSeq(path, 1, Len(path) - 1)) \o <<path[Len(path)]>>

\* path lies inside directory dir
IsUnder(path, dir) ==
    /\ Len(path) > Len(dir) + 1
    /\ SubSeq(path, 1, Len(dir)) = dir
    /\ path[Len(dir) + 1] = "/"

\* the path of the same entry under another directory
Rebase(path, from, to) == to \o SubSeq(path, Len(from) + 1, Len(path))

\* Field values are strings (their characters); Undefined is the value of a
\* field that is missing or was set to undefined
Undefined == <<"undefined">>
Get(d, k) == IF k \in DOMAIN d THEN d[k] ELSE Undefined
Truthy(v) == v # Undefined /\ v # <<>>
Put(d, k, v) == [x \in DOMAIN d \cup {k} |-> IF x = k THEN v ELSE d[x]]

\* slugize(str, { transform }): transform 1 lower-cases, 2 upper-cases
SlugChar(c, transform) ==
    IF transform = 1 /\ c = "A" THEN "a"
    ELSE IF transform = 2 /\ c = "a" THEN "A"
    ELSE c
slugize(str, transform) == [i \in 1..Len(str) |-> SlugChar(str[i], transform)]

\* layout.toLowerCase(), a layout name being one piece
toLowerCase(str) == [i \in 1..Len(str) |-> IF str[i] = "Page" THEN "page" ELSE str[i]]

\* new RegExp(`^${escapeRegExp(slug)}(?:[^\/\\]+)`).test(item)
DraftRegexTestAnyNext(slug, item) ==
    /\ Len(item) > Len(slug)
    /\ SubSeq(item, 1, Len(slug)) = slug

DraftRegexTest(slug, item) ==
    /\ Len(item) > Len(slug)
    /\ SubSeq(item, 1, Len(slug)) = slug
    /\ item[Len(slug) + 1] \notin {"/", "\\"}

\* list.find(item => regex.test(item)): the index of the first match, or 0
Find(list, slug) ==
    IF \E i \in 1..Len(list) : DraftRegexTest(slug, list[i])
    THEN CHOOSE i \in 1..Len(list) :
            /\ DraftRegexTest(slug, list[i])
            /\ \A j \in 1..(i - 1) : ~DraftRegexTest(slug, list[j])
    ELSE 0

\* Object.assign(target, source)
ObjectAssignKeepsTarget(target, source) ==
    [k \in DOMAIN target \cup DOMAIN source |->
        IF k \in DOMAIN target THEN target[k] ELSE source[k]]

ObjectAssign(target, source) ==
    [k \in DOMAIN target \cup DOMAIN source |->
        IF k \in DOMAIN source THEN source[k] ELSE target[k]]

\* yfmParse(content): the front-matter fields and the body as _content
yfmParse(content) == Put(content.fm, "_content", content.body)

\* the first lines of create: slug, layout and date are normalised in place
CreateNormalise(d, config) ==
    LET s1 == Put(d, "slug",
                  slugize(IF Truthy(Get(d, "slug")) THEN d.slug ELSE Get(d, "title"),
                          config.filename_case))
        s2 == Put(s1, "layout",
                  toLowerCase(IF Truthy(Get(s1, "layout")) THEN s1.layout
                              ELSE config.default_layout))
    IN Put(s2, "date",
           IF Truthy(Get(s2, "date")) THEN <<"moment">> \o s2.date
           ELSE <<"moment", "now">>)

----------------------------------------------------------------------------
(* SpecPost: Post.publish and Post.create *)

EmptyFields == [k \in {} |-> <<>>]
NoContent == [fm |-> EmptyFields, body |-> <<>>]
NoResult  == [path |-> <<>>, content |-> NoContent]
Pending   == [status |-> "pending", stage |-> "", error |-> <<>>, value |-> NoResult]
Resolved(r) == [status |-> "resolved", stage |-> "", error |-> <<>>, value |-> r]
Rejected(stage, err) ==
    [status |-> "rejected", stage |-> stage, error |-> err, value |-> NoResult]
Idle == [st |-> "idle", v |-> <<>>]

\* an OS-level or collaborator error, passed on unchanged
IOError == <<"EIO">>

\* records with some of the optional fields: choices maps a field name to
\* the values it may take
RecordsOver(choices) ==
    UNION { { f \in [ks -> UNION { choices[k] : k \in DOMAIN choices }] :
                \A k \in ks : f[k] \in choices[k] } :
            ks \in SUBSET DOMAIN choices }

\* what callers pass: a slug, and possibly a layout, a title and a content
CallerRecords ==
    { ObjectAssign([slug |-> s], extra) :
        s \in {<<"a">>, <<"A">>},
        extra \in RecordsOver([layout  |-> {<<"draft">>, <<"Page">>},
                               title   |-> {<<"caller title">>},
                               content |-> {<<"caller content">>}]) }

\* the front matter a draft may carry
DraftFrontMatters ==
    RecordsOver([layout |-> {<<"photo">>}, title |-> {<<"draft title">>}])

DraftNames == { <<"a", ".md">>, <<"a", "b", ".md">> }
DraftSets  == { {}, {<<"a", ".md">>}, DraftNames }
AssetFile  == [fm |-> EmptyFields, body |-> <<"png">>]

\* the drafts tree: the chosen drafts, and possibly the asset folder of a.md
\* with one file in it
DraftFiles(names, fm, withAssets) ==
    LET paths == { Join(draftDir, n) : n \in names }
                 \cup (IF withAssets THEN {Join(draftDir, <<"a", "/", "p">>)} ELSE {})
    IN [path \in paths |->
          IF path = Join(draftDir, <<"a", "/", "p">>) THEN AssetFile
          ELSE [fm |-> fm, body |-> <<"body of">> \o path]]

\* the directories at the start: the two roots, possibly the asset folder
\* of the draft a.md and the asset folder of the post a.md
InitialDirs(withAssets, destFolder) ==
    {draftDir, postDir}
    \cup (IF withAssets THEN {Join(draftDir, <<"a">>)} ELSE {})
    \cup (IF destFolder THEN {Join(postDir, <<"a">>)} ELSE {})

InitPost ==
    /\ \E caller \in CallerRecords, fm \in DraftFrontMatters, names \in DraftSets,
          withAssets \in BOOLEAN, destFolder \in BOOLEAN,
          assetFolder \in BOOLEAN, case \in {0, 1} :
         /\ data = caller
         /\ files = DraftFiles(names, fm, withAssets)
         /\ dirs = InitialDirs(withAssets, destFolder)
         /\ cfg = [post_asset_folder |-> assetFolder,
                   filename_case     |-> case,
                   default_layout    |-> <<"post">>,
                   data   |-> caller,
                   files0 |-> DraftFiles(names, fm, withAssets),
                   dirs0  |-> InitialDirs(withAssets, destFolder)]
    /\ pc = "start"
    /\ handed = EmptyFields
    /\ listing = [done |-> FALSE, items |-> <<>>]
    /\ src = <<>>
    /\ result = NoResult
    /\ cpath = Idle /\ ccontent = [st |-> "idle", v |-> NoContent]
    /\ cwrite = "idle" /\ cfolder = "idle" /\ cstate = "idle"
    /\ created = NoResult
    /\ events = <<>>
    /\ log = <<>>
    /\ outcome = Pending

IdlePost ==
    /\ pc = "idle" /\ data = EmptyFields /\ handed = EmptyFields
    /\ files = EmptyFields /\ dirs = {}
    /\ listing = [done |-> FALSE, items |-> <<>>]
    /\ src = <<>> /\ result = NoResult
    /\ cpath = Idle /\ ccontent = [st |-> "idle", v |-> NoContent]
    /\ cwrite = "idle" /\ cfolder = "idle" /\ cstate = "idle"
    /\ created = NoResult /\ events = <<>> /\ log = <<>>
    /\ outcome = Pending /\ cfg = EmptyFields

\* what _renderScaffold(data) resolves with, as far as publish and create
\* are concerned: the fields of data that are not reserved, and data.content
\* after the scaffold's own text
RenderedDocument(d) ==
    [fm   |-> [k \in DOMAIN d \ preservedKeys |-> d[k]],
     body |-> IF Truthy(Get(d, "content")) THEN <<"\n">> \o d.content ELSE <<>>]

\* the paths the new_post_path filter may resolve with: the post named after
\* the slug, or an index document
PostPaths(d) ==
    { Join(postDir, d.slug \o <<".md">>), Join(postDir, <<"index", ".md">>) }

Without(f, gone) == [x \in DOMAIN f \ gone |-> f[x]]

\* every order in which listDir may report the entries of a set
Orders(S) ==
    { f \in [1..Cardinality(S) -> S] :
        \A i, j \in 1..Cardinality(S) : i # j => f[i] # f[j] }

\* the rejection of create reaches the caller of create, and through the
\* chain of publish its caller; a second failure of the same Promise.all
\* changes nothing
CreateRejects(err) ==
    /\ cstate' = IF cstate = "pending" THEN "rejected" ELSE cstate
    /\ outcome' = IF outcome.status = "pending" THEN Rejected("create", err)
                  ELSE outcome
    /\ pc' = "done"

\* the first lines of publish: the layout "draft" becomes "post", the slug
\* is slugized, the layout defaulted and lower-cased
PublishNormalise(d, config) ==
    LET d1   == IF Get(d, "layout") = <<"draft">>
                THEN Put(d, "layout", <<"post">>) ELSE d
        slug == slugize(d1.slug, config.filename_case)
        d2   == Put(d1, "slug", slug)
    IN Put(d2, "layout",
           toLowerCase(IF Truthy(Get(d2, "layout")) THEN d2.layout
                       ELSE config.default_layout))

\* publish(data, replace) up to the call of listDir
CallPublish ==
    /\ pc = "start"
    /\ data' = PublishNormalise(data, cfg)
    /\ pc' = "listDir"
    /\ UNCHANGED <<handed, files, dirs, listing, src, result, cpath, ccontent,
                   cwrite, cfolder, cstate, created, events, log, outcome, cfg>>
    /\ UNCHANGED <<scanVars, scafVars, renderVars>>

\* the message of the error publish throws when no draft matches
DraftMissing(slug) == <<"Draft \"">> \o slug \o <<"\" does not exist.">>

\* listDir(draftDir) resolved: find the draft, then call readFile
ListDirDone ==
    /\ pc = "listDir"
    /\ \E list \in Orders({ SubSeq(f, Len(draftDir) + 2, Len(f)) :
                              f \in { g \in DOMAIN files : IsUnder(g, draftDir) } }) :
         LET i == Find(list, data.slug) IN
           /\ listing' = [done |-> TRUE, items |-> list]
           /\ IF i = 0
              THEN /\ outcome' = Rejected("find", DraftMissing(data.slug))
                   /\ pc' = "done"
                   /\ src' = src
              ELSE /\ src' = Join(draftDir, list[i])
                   /\ pc' = "readFile"
                   /\ outcome' = outcome
    /\ UNCHANGED <<data, handed, files, dirs, result, cpath, ccontent, cwrite,
                   cfolder, cstate, created, events, log, cfg>>
    /\ UNCHANGED <<scanVars, scafVars, renderVars>>

ListDirFails ==
    /\ pc = "listDir"
    /\ outcome' = Rejected("listDir", IOError)
    /\ pc' = "done"
    /\ UNCHANGED <<data, handed, files, dirs, listing, src, result, cpath,
                   ccontent, cwrite, cfolder, cstate, created, events, log, cfg>>
    /\ UNCHANGED <<scanVars, scafVars, renderVars>>

\* create(data, replace) up to Promise.all([execFilter, _renderScaffold])
StartCreate(d) ==
    /\ handed' = d
    /\ data' = CreateNormalise(d, cfg)
    /\ cpath' = [st |-> "pending", v |-> <<>>]
    /\ ccontent' = [st |-> "pending", v |-> NoContent]
    /\ cstate' = "pending"

\* readFile(src) resolved: fold the draft into data and call create
ReadFileDone ==
    /\ pc = "readFile"
    /\ src \in DOMAIN files
    /\ LET d1 == ObjectAssign(data, yfmParse(files[src]))
           d2 == Put(d1, "content", Get(d1, "_content"))
           d3 == Put(d2, "_content", Undefined)
       IN StartCreate(d3)
    /\ pc' = "create"
    /\ UNCHANGED <<files, dirs, listing, src, result, cwrite, cfolder, created,
                   events, log, outcome, cfg>>
    /\ UNCHANGED <<scanVars, scafVars, renderVars>>

ReadFileFails ==
    /\ pc = "readFile"
    /\ outcome' = Rejected("readFile", IOError)
    /\ pc' = "done"
    /\ UNCHANGED <<data, handed, files, dirs, listing, src, result, cpath,
                   ccontent, cwrite, cfolder, cstate, created, events, log, cfg>>
    /\ UNCHANGED <<scanVars, scafVars, renderVars>>

\* create called directly
CallCreate ==
    /\ pc = "start"
    /\ StartCreate(data)
    /\ pc' = "createOnly"
    /\ UNCHANGED <<files, dirs, listing, src, result, cwrite, cfolder, created,
                   events, log, outcome, cfg>>
    /\ UNCHANGED <<scanVars, scafVars, renderVars>>

\* ctx.execFilter('new_post_path', data, ...) resolved
NewPostPathResolves ==
    /\ cpath.st = "pending"
    /\ \E path \in PostPaths(data) : cpath' = [st |-> "resolved", v |-> path]
    /\ UNCHANGED <<pc, data, handed, files, dirs, listing, src, result, ccontent,
                   cwrite, cfolder, cstate, created, events, log, outcome, cfg>>
    /\ UNCHANGED <<scanVars, scafVars, renderVars>>

NewPostPathRejects ==
    /\ cpath.st = "pending"
    /\ cpath' = [st |-> "rejected", v |-> <<>>]
    /\ CreateRejects(IOError)
    /\ UNCHANGED <<data, handed, files, dirs, listing, src, result, ccontent,
                   cwrite, cfolder, created, events, log, cfg>>
    /\ UNCHANGED <<scanVars, scafVars, renderVars>>

\* this._renderScaffold(data) resolved
RenderScaffoldResolves ==
    /\ ccontent.st = "pending"
    /\ ccontent' = [st |-> "resolved", v |-> RenderedDocument(data)]
    /\ UNCHANGED <<pc, data, handed, files, dirs, listing, src, result, cpath,
                   cwrite, cfolder, cstate, created, events, log, outcome, cfg>>
    /\ UNCHANGED <<scanVars, scafVars, renderVars>>

RenderScaffoldRejects ==
    /\ ccontent.st = "pending"
    /\ ccontent' = [st |-> "rejected", v |-> NoContent]
    /\ CreateRejects(IOError)
    /\ UNCHANGED <<data, handed, files, dirs, listing, src, result, cpath,
                   cwrite, cfolder, created, events, log, cfg>>
    /\ UNCHANGED <<scanVars, scafVars, renderVars>>

\* createAssetFolder(path, assetFolder) up to its first asynchronous call
AssetFolderStart(path, assetFolder) ==
    IF ~assetFolder THEN "done"
    ELSE IF Basename(removeExtname(path)) = <<"index">> THEN "done"
    ELSE "exists"

\* Promise.all([execFilter('new_post_path', ...), _renderScaffold(data)])
\* has resolved
BothResolvedPathOnly == cpath.st = "resolved"

BothResolved == cpath.st = "resolved" /\ ccontent.st = "resolved"

\* .spread((path, content) => ...): both results are in; start the write and
\* the asset folder
CreateSpread ==
    /\ cstate = "pending"
    /\ BothResolved
    /\ cwrite = "idle"
    /\ created' = [path |-> cpath.v, content |-> ccontent.v]
    /\ cwrite' = "pending"
    /\ cfolder' = AssetFolderStart(cpath.v, cfg.post_asset_folder)
    /\ UNCHANGED <<pc, data, handed, files, dirs, listing, src, result, cpath,
                   ccontent, cstate, events, log, outcome, cfg>>
    /\ UNCHANGED <<scanVars, scafVars, renderVars>>

\* writeFile(path, content) took effect and resolved
WriteFileDone ==
    /\ cwrite = "pending"
    /\ files' = Put(files, created.path, created.content)
    /\ log' = Append(log, [op |-> "writeFile", path |-> created.path])
    /\ cwrite' = "done"
    /\ UNCHANGED <<pc, data, handed, dirs, listing, src, result, cpath, ccontent,
                   cfolder, cstate, created, events, outcome, cfg>>
    /\ UNCHANGED <<scanVars, scafVars, renderVars>>

WriteFileFails ==
    /\ cwrite = "pending"
    /\ cwrite' = "failed"
    /\ CreateRejects(IOError)
    /\ UNCHANGED <<data, handed, files, dirs, listing, src, result, cpath,
                   ccontent, cfolder, created, events, log, cfg>>
    /\ UNCHANGED <<scanVars, scafVars, renderVars>>

\* exists(target) resolved inside createAssetFolder
FolderExistsDone ==
    /\ cfolder = "exists"
    /\ cfolder' = IF removeExtname(created.path) \in dirs THEN "done" ELSE "mkdirs"
    /\ UNCHANGED <<pc, data, handed, files, dirs, listing, src, result, cpath,
                   ccontent, cwrite, cstate, created, events, log, outcome, cfg>>
    /\ UNCHANGED <<scanVars, scafVars, renderVars>>

FolderExistsFails ==
    /\ cfolder = "exists"
    /\ cfolder' = "failed"
    /\ CreateRejects(IOError)
    /\ UNCHANGED <<data, handed, files, dirs, listing, src, result, cpath,
                   ccontent, cwrite, created, events, log, cfg>>
    /\ UNCHANGED <<scanVars, scafVars, renderVars>>

\* mkdirs(target) took effect and resolved
MkdirsDone ==
    /\ cfolder = "mkdirs"
    /\ dirs' = dirs \cup {removeExtname(created.path)}
    /\ log' = Append(log, [op |-> "mkdirs", path |-> removeExtname(created.path)])
    /\ cfolder' = "done"
    /\ UNCHANGED <<pc, data, handed, files, listing, src, result, cpath, ccontent,
                   cwrite, cstate, created, events, outcome, cfg>>
    /\ UNCHANGED <<scanVars, scafVars, renderVars>>

MkdirsFails ==
    /\ cfolder = "mkdirs"
    /\ cfolder' = "failed"
    /\ CreateRejects(IOError)
    /\ UNCHANGED <<data, handed, files, dirs, listing, src, result, cpath,
                   ccontent, cwrite, created, events, log, cfg>>
    /\ UNCHANGED <<scanVars, scafVars, renderVars>>

\* Promise.all([writeFile(...), createAssetFolder(...)]) has resolved
BothSettledFolderOnly == cfolder = "done"

BothSettled == cwrite = "done" /\ cfolder = "done"

\* .then(() => { ctx.emit('new', result); return result; })
CreateThen ==
    /\ cstate = "pending"
    /\ cwrite # "idle"
    /\ BothSettled
    /\ events' = Append(events, created)
    /\ cstate' = "resolved"
    /\ IF pc = "createOnly"
       THEN outcome' = Resolved(created) /\ pc' = "done"
       ELSE UNCHANGED <<outcome, pc>>
    /\ UNCHANGED <<data, handed, files, dirs, listing, src, result, cpath,
                   ccontent, cwrite, cfolder, created, log, cfg>>
    /\ UNCHANGED <<scanVars, scafVars, renderVars>>

\* the promise publish chains its unlink step on
CreateReturnedNotAwaited == cstate \in {"pending", "resolved"} /\ cwrite # "idle"

CreateReturned == cstate = "resolved"

\* .then(post => { result.path = ...; return unlink(src); })
PublishAfterCreate ==
    /\ pc = "create"
    /\ CreateReturned
    /\ result' = [path |-> created.path, content |-> created.content]
    /\ pc' = "unlink"
    /\ UNCHANGED <<data, handed, files, dirs, listing, src, cpath, ccontent,
                   cwrite, cfolder, cstate, created, events, log, outcome, cfg>>
    /\ UNCHANGED <<scanVars, scafVars, renderVars>>

\* the file publish unlinks
UnlinkTargetIsResult == result.path

UnlinkTarget == src

\* unlink(src) took effect and resolved; then the asset folder is looked for
UnlinkDone ==
    /\ pc = "unlink"
    /\ UnlinkTarget \in DOMAIN files
    /\ files' = Without(files, {UnlinkTarget})
    /\ log' = Append(log, [op |-> "unlink", path |-> UnlinkTarget])
    /\ IF ~cfg.post_asset_folder
       THEN outcome' = Resolved(result) /\ pc' = "done"
       ELSE outcome' = outcome /\ pc' = "exists"
    /\ UNCHANGED <<data, handed, dirs, listing, src, result, cpath, ccontent,
                   cwrite, cfolder, cstate, created, events, cfg>>
    /\ UNCHANGED <<scanVars, scafVars, renderVars>>

UnlinkFails ==
    /\ pc = "unlink"
    /\ outcome' = Rejected("unlink", IOError)
    /\ pc' = "done"
    /\ UNCHANGED <<data, handed, files, dirs, listing, src, result, cpath,
                   ccontent, cwrite, cfolder, cstate, created, events, log, cfg>>
    /\ UNCHANGED <<scanVars, scafVars, renderVars>>

\* what exists(assetSrc) resolves with
AssetSrcAssumed == TRUE

AssetSrcExists == removeExtname(src) \in dirs

\* exists(assetSrc) resolved
ExistsDone ==
    /\ pc = "exists"
    /\ IF AssetSrcExists
       THEN outcome' = outcome /\ pc' = "copyDir"
       ELSE outcome' = Resolved(result) /\ pc' = "done"
    /\ UNCHANGED <<data, handed, files, dirs, listing, src, result, cpath,
                   ccontent, cwrite, cfolder, cstate, created, events, log, cfg>>
    /\ UNCHANGED <<scanVars, scafVars, renderVars>>

ExistsFails ==
    /\ pc = "exists"
    /\ outcome' = Rejected("exists", IOError)
    /\ pc' = "done"
    /\ UNCHANGED <<data, handed, files, dirs, listing, src, result, cpath,
                   ccontent, cwrite, cfolder, cstate, created, events, log, cfg>>
    /\ UNCHANGED <<scanVars, scafVars, renderVars>>

\* copyDir(assetSrc, assetDest) took effect and resolved
CopyDirDone ==
    /\ pc = "copyDir"
    /\ LET assetSrc  == removeExtname(src)
           assetDest == removeExtname(result.path)
           copied    == { f \in DOMAIN files : IsUnder(f, assetSrc) }
       IN /\ dirs' = dirs \cup {assetDest}
          /\ files' = [f \in DOMAIN files \cup
                               { Rebase(g, assetSrc, assetDest) : g \in copied } |->
                         IF \E g \in copied : Rebase(g, assetSrc, assetDest) = f
                         THEN files[CHOOSE g \in copied :
                                       Rebase(g, assetSrc, assetDest) = f]
                         ELSE files[f]]
          /\ log' = Append(log, [op |-> "copyDir", path |-> assetDest])
    /\ pc' = "rmdir"
    /\ UNCHANGED <<data, handed, listing, src, result, cpath, ccontent, cwrite,
                   cfolder, cstate, created, events, outcome, cfg>>
    /\ UNCHANGED <<scanVars, scafVars, renderVars>>

CopyDirFails ==
    /\ pc = "copyDir"
    /\ outcome' = Rejected("copyDir", IOError)
    /\ pc' = "done"
    /\ UNCHANGED <<data, handed, files, dirs, listing, src, result, cpath,
                   ccontent, cwrite, cfolder, cstate, created, events, log, cfg>>
    /\ UNCHANGED <<scanVars, scafVars, renderVars>>

\* rmdir(assetSrc) took effect and resolved: publish resolves with result
RmdirDone ==
    /\ pc = "rmdir"
    /\ LET assetSrc == removeExtname(src) IN
         /\ dirs' = dirs \ {assetSrc}
         /\ files' = Without(files, { f \in DOMAIN files : IsUnder(f, assetSrc) })
         /\ log' = Append(log, [op |-> "rmdir", path |-> assetSrc])
    /\ outcome' = Resolved(result)
    /\ pc' = "done"
    /\ UNCHANGED <<data, handed, listing, src, result, cpath, ccontent, cwrite,
                   cfolder, cstate, created, events, cfg>>
    /\ UNCHANGED <<scanVars, scafVars, renderVars>>

RmdirFails ==
    /\ pc = "rmdir"
    /\ outcome' = Rejected("rmdir", IOError)
    /\ pc' = "done"
    /\ UNCHANGED <<data, handed, files, dirs, listing, src, result, cpath,
                   ccontent, cwrite, cfolder, cstate, created, events, log, cfg>>
    /\ UNCHANGED <<scanVars, scafVars, renderVars>>

NextPost ==
    \/ CallPublish
    \/ ListDirDone
    \/ ListDirFails
    \/ ReadFileDone
    \/ ReadFileFails
    \/ CallCreate
    \/ NewPostPathResolves
    \/ NewPostPathRejects
    \/ RenderScaffoldResolves
    \/ RenderScaffoldRejects
    \/ CreateSpread
    \/ WriteFileDone
    \/ WriteFileFails
    \/ FolderExistsDone
    \/ FolderExistsFails
    \/ MkdirsDone
    \/ MkdirsFails
    \/ CreateThen
    \/ PublishAfterCreate
    \/ UnlinkDone
    \/ UnlinkFails
    \/ ExistsDone
    \/ ExistsFails
    \/ CopyDirDone
    \/ CopyDirFails
    \/ RmdirDone
    \/ RmdirFails

----------------------------------------------------------------------------
(* Post.render: code blocks, the renderer and the template engine *)

\* the sentinel wrapper of rHexoPostRenderEscape, one atom per marker
CodeOpen  == "<hexoPostRenderCodeBlock>"
CodeClose == "</hexoPostRenderCodeBlock>"

CodeOpeners == {"<!--code|", "&lt;!--code|"}

\* escapeCodeBlocks(str) from position i on: each leftmost region
\* <open>([\s\S]+?)</close>, one character at least and as few as possible,
\* becomes a code placeholder and its inner text a table entry
RECURSIVE EscapeCodeBlocksFrom(_, _, _, _)
EscapeCodeBlocksFrom(str, i, acc, cache) ==
    IF i > Len(str) THEN [text |-> acc, cache |-> cache]
    ELSE LET ends == { j \in (i + 2)..Len(str) : str[j] = CodeClose } IN
         IF str[i] = CodeOpen /\ ends # {}
         THEN LET j == CHOOSE j \in ends : \A k \in ends : j <= k
                  e == EscapeContent(cache, "code", SubSeq(str, i + 1, j - 1))
              IN EscapeCodeBlocksFrom(str, j + 1, acc \o e.text, e.cache)
         ELSE EscapeCodeBlocksFrom(str, i + 1, Append(acc, str[i]), cache)

EscapeCodeBlocks(str, cache) == EscapeCodeBlocksFrom(str, 1, <<>>, cache)

\* restoreCodeBlocks(str)
RestoreCodeBlocks(str, cache) ==
    ReplacePlaceholders(str, CodeOpeners, 1, <<>>, cache)

\* extname(source)
extname(path) == IF ExtLen(path) = 1 THEN path[Len(path)] ELSE ""

\* ctx.render.getOutput(data.source): the output extension of the renderer
\* registered for the file's extension, else the extension itself
getOutput(path) ==
    IF extname(path) = ".md" THEN "html"
    ELSE IF extname(path) = ".css" THEN "css"
    ELSE ""

\* ctx.render.render hands the text to the renderer of the engine; what a
\* renderer makes of the markup is not looked at here, only whether it
\* leaves a placeholder as it is or HTML-escapes its angle brackets
HtmlEscapeAtom(a) ==
    IF a = "<!--swig|" THEN "&lt;!--swig|"
    ELSE IF a = "<!--code|" THEN "&lt;!--code|"
    ELSE IF a = "-->" THEN "--&gt;"
    ELSE a

RendererOutput(str, encodes) ==
    IF encodes /\ str # <<>>
    THEN [k \in 1..Len(str) |-> HtmlEscapeAtom(str[k])]
    ELSE str

\* tag.render(str, data): every closed {{ }} and {% %} is replaced by what it
\* evaluates to (one atom here), a closed {# #} by nothing; an opener that is
\* never closed is a template error
EngineValue == "$"

RECURSIVE TagRenderFrom(_, _, _)
TagRenderFrom(str, i, acc) ==
    IF i > Len(str) THEN [ok |-> TRUE, text |-> acc]
    ELSE IF str[i] = "{" /\ NextChar(str, i) \in {"{", "#", "%"}
    THEN LET closer == IF str[i + 1] = "{" THEN "}" ELSE str[i + 1]
             ends == { j \in (i + 2)..(Len(str) - 1) :
                          str[j] = closer /\ str[j + 1] = "}" }
         IN IF ends = {} THEN [ok |-> FALSE, text |-> acc]
            ELSE LET j == CHOOSE j \in ends : \A k \in ends : j <= k IN
                 TagRenderFrom(str, j + 2,
                     IF str[i + 1] = "#" THEN acc ELSE Append(acc, EngineValue))
    ELSE TagRenderFrom(str, i + 1, Append(acc, str[i]))

TagRender(str) == TagRenderFrom(str, 1, <<>>)

----------------------------------------------------------------------------
(* What render is called with *)

RenderCalls == {1, 2}

\* a variable tag, a code block with a variable tag of its own in it, and
\* the text of a tag placeholder that names index 0
RenderPieces ==
    { <<"{", "{", "x", "}", "}">>,
      <<CodeOpen, "{", "{", "y", "}", "}", CodeClose>>,
      <<"<!--swig|", "0", "-->">> }

RenderTexts ==
    UNION { { Flatten(f) : f \in [1..n -> RenderPieces] } : n \in 0..MaxPieces }

MdFile  == <<"p", ".md">>
CssFile == <<"s", ".css">>

\* source, data.source and data.engine
RenderShapes ==
    { [source |-> <<>>, dataSource |-> Undefined, engine |-> e] :
          e \in {"", "md"} }
    \cup { [source |-> s, dataSource |-> d, engine |-> ""] :
          s \in {MdFile, CssFile}, d \in {Undefined, MdFile, CssFile} }

\* data.disableNunjucks: a boolean, or anything else
Overrides == {"true", "false", "undefined"}

\* ctx.render.renderer.get(ext): none, one without the flag, one that sets it
Registered == {"none", "plain", "disables"}

\* inline: data.content is given; text is data.content then, else what the
\* file at source holds; encodes: the renderer HTML-escapes placeholders
OptionsOver(shapes, inlines, overrides, registered, texts, encoders) ==
    { [source |-> sh.source, dataSource |-> sh.dataSource,
       engine |-> sh.engine, inline |-> inl, override |-> ov, reg |-> rg,
       text |-> t, encodes |-> en] :
          sh \in shapes, inl \in inlines, ov \in overrides,
          rg \in registered, t \in texts, en \in encoders }

RenderOptions ==
    OptionsOver(RenderShapes, BOOLEAN, Overrides, Registered, RenderTexts, BOOLEAN)

\* the calls two renders in flight are made with
PairShapes ==
    { sh \in RenderShapes :
          sh.engine = "" /\ (sh.source = <<>> \/ sh.dataSource = sh.source) }

PairTexts == { <<>> } \cup RenderPieces

PairOptions ==
    { o \in OptionsOver(PairShapes, BOOLEAN, {"false", "undefined"},
                        {"plain"}, PairTexts, {FALSE}) :
          o.inline = (o.source = <<>>) }

NoCall ==
    [source |-> <<>>, dataSource |-> Undefined, engine |-> "", inline |-> FALSE,
     override |-> "undefined", reg |-> "none", text |-> <<>>, encodes |-> FALSE]

RenderPending == [status |-> "pending", stage |-> ""]
RenderResolved == [status |-> "resolved", stage |-> ""]
RenderRejected(stage) == [status |-> "rejected", stage |-> stage]

\* data = {} by default, or the record the caller passed
InitialContent(o) == IF o.inline THEN o.text ELSE Undefined

InitRender ==
    /\ \E o \in RenderOptions :
          ropts = [c \in RenderCalls |-> IF c = 1 THEN o ELSE NoCall]
    /\ rpc = [c \in RenderCalls |-> IF c = 1 THEN "idle" ELSE "unused"]
    /\ rcontent = [c \in RenderCalls |-> InitialContent(ropts[c])]
    /\ rvalue = [c \in RenderCalls |-> Undefined]
    /\ tables = [c \in RenderCalls |-> <<>>]
    /\ rlog = [c \in RenderCalls |-> <<>>]
    /\ rout = [c \in RenderCalls |-> RenderPending]

InitRenderPair ==
    /\ ropts \in [RenderCalls -> PairOptions]
    /\ rpc = [c \in RenderCalls |-> "idle"]
    /\ rcontent = [c \in RenderCalls |-> InitialContent(ropts[c])]
    /\ rvalue = [c \in RenderCalls |-> Undefined]
    /\ tables = [c \in RenderCalls |-> <<>>]
    /\ rlog = [c \in RenderCalls |-> <<>>]
    /\ rout = [c \in RenderCalls |-> RenderPending]

IdleRender ==
    /\ ropts = [c \in RenderCalls |-> NoCall]
    /\ rpc = [c \in RenderCalls |-> "unused"]
    /\ rcontent = [c \in RenderCalls |-> Undefined]
    /\ rvalue = [c \in RenderCalls |-> Undefined]
    /\ tables = [c \in RenderCalls |-> <<>>]
    /\ rlog = [c \in RenderCalls |-> <<>>]
    /\ rout = [c \in RenderCalls |-> RenderPending]

----------------------------------------------------------------------------
(* Post.render, one action per callback of its promise chain *)

\* const ext = data.engine || (source ? extname(source) : '')
Ext(o) ==
    IF o.engine # "" THEN o.engine
    ELSE IF o.source # <<>> THEN extname(o.source)
    ELSE ""

\* isPost = !data.source || ['html', 'htm'].includes(getOutput(data.source))
IsPostAlways(o) == TRUE

IsPost(o) ==
    \/ o.dataSource = Undefined
    \/ getOutput(o.dataSource) \in {"html", "htm"}

\* let disableNunjucks = ext && renderer.get(ext) && !!renderer.get(ext).disableNunjucks
\* if (typeof data.disableNunjucks === 'boolean') disableNunjucks = data.disableNunjucks
\* The value is '' for no extension, undefined for no renderer, else a boolean.
DisableNunjucks(o) ==
    LET fromRenderer ==
            IF Ext(o) = "" THEN "''"
            ELSE IF o.reg = "none" THEN "undefined"
            ELSE IF o.reg = "disables" THEN "true"
            ELSE "false"
    IN IF o.override \in {"true", "false"} THEN o.override ELSE fromRenderer

\* const cacheObj = new PostRenderEscape(): the object of call c
CacheObjShared(c) == 1

CacheObj(c) == c

Entry(op, str) == [op |-> op, text |-> str]

\* render(source, data): the content is data.content, or is read from the
\* file, or there is nothing to render
RenderCall ==
    \E c \in RenderCalls :
        /\ rpc[c] = "idle"
        /\ IF ropts[c].inline
           THEN /\ rpc' = [rpc EXCEPT ![c] = "promise"]
                /\ rvalue' = [rvalue EXCEPT ![c] = ropts[c].text]
                /\ UNCHANGED <<rlog, rout>>
           ELSE IF ropts[c].source # <<>>
           THEN /\ rpc' = [rpc EXCEPT ![c] = "readFile"]
                /\ rlog' = [rlog EXCEPT ![c] = Append(@, Entry("readFile", ropts[c].source))]
                /\ UNCHANGED <<rvalue, rout>>
           ELSE /\ rpc' = [rpc EXCEPT ![c] = "done"]
                /\ rout' = [rout EXCEPT ![c] = RenderRejected("input")]
                /\ UNCHANGED <<rvalue, rlog>>
        /\ UNCHANGED <<ropts, rcontent, tables>>
        /\ UNCHANGED <<scanVars, scafVars, postVars>>

\* readFile(source) resolves
RenderReadDone ==
    \E c \in RenderCalls :
        /\ rpc[c] = "readFile"
        /\ rpc' = [rpc EXCEPT ![c] = "promise"]
        /\ rvalue' = [rvalue EXCEPT ![c] = ropts[c].text]
        /\ UNCHANGED <<ropts, rcontent, tables, rlog, rout>>
        /\ UNCHANGED <<scanVars, scafVars, postVars>>

RenderReadFails ==
    \E c \in RenderCalls :
        /\ rpc[c] = "readFile"
        /\ rpc' = [rpc EXCEPT ![c] = "done"]
        /\ rout' = [rout EXCEPT ![c] = RenderRejected("readFile")]
        /\ UNCHANGED <<ropts, rcontent, rvalue, tables, rlog>>
        /\ UNCHANGED <<scanVars, scafVars, postVars>>

\* if (!isPost): promise.then(content => ... ctx.render.render({...}))
PassThrough ==
    \E c \in RenderCalls :
        /\ rpc[c] = "promise"
        /\ ~IsPost(ropts[c])
        /\ rcontent' = [rcontent EXCEPT ![c] = rvalue[c]]
        /\ rlog' = [rlog EXCEPT ![c] = Append(@, Entry("render.render", rvalue[c]))]
        /\ rpc' = [rpc EXCEPT ![c] = "passThrough"]
        /\ UNCHANGED <<ropts, rvalue, tables, rout>>
        /\ UNCHANGED <<scanVars, scafVars, postVars>>

\* .then(content => { data.content = content; return data; })
PassThroughDone ==
    \E c \in RenderCalls :
        /\ rpc[c] = "passThrough"
        /\ rcontent' = [rcontent EXCEPT ![c] =
                            RendererOutput(rcontent[c], ropts[c].encodes)]
        /\ rpc' = [rpc EXCEPT ![c] = "done"]
        /\ rout' = [rout EXCEPT ![c] = RenderResolved]
        /\ UNCHANGED <<ropts, rvalue, tables, rlog>>
        /\ UNCHANGED <<scanVars, scafVars, postVars>>

PassThroughFails ==
    \E c \in RenderCalls :
        /\ rpc[c] = "passThrough"
        /\ rpc' = [rpc EXCEPT ![c] = "done"]
        /\ rout' = [rout EXCEPT ![c] = RenderRejected("render.render")]
        /\ UNCHANGED <<ropts, rcontent, rvalue, tables, rlog>>
        /\ UNCHANGED <<scanVars, scafVars, postVars>>

\* promise.then(content => { data.content = content;
\*     return ctx.execFilter('before_post_render', data, ...) })
\* No filter registered outside this file is taken to rewrite the content:
\* the texts already hold the code-block markers such a filter leaves.
BeforePostRender ==
    \E c \in RenderCalls :
        /\ rpc[c] = "promise"
        /\ IsPost(ropts[c])
        /\ rcontent' = [rcontent EXCEPT ![c] = rvalue[c]]
        /\ rlog' = [rlog EXCEPT ![c] = Append(@, Entry("before_post_render", rvalue[c]))]
        /\ rpc' = [rpc EXCEPT ![c] = "before"]
        /\ UNCHANGED <<ropts, rvalue, tables, rout>>
        /\ UNCHANGED <<scanVars, scafVars, postVars>>

BeforeHookRejects ==
    \E c \in RenderCalls :
        /\ rpc[c] = "before"
        /\ rpc' = [rpc EXCEPT ![c] = "done"]
        /\ rout' = [rout EXCEPT ![c] = RenderRejected("before_post_render")]
        /\ UNCHANGED <<ropts, rcontent, rvalue, tables, rlog>>
        /\ UNCHANGED <<scanVars, scafVars, postVars>>

\* the second callback runs when the promise of the hook has resolved
BeforeHookNotAwaited(c) == rpc[c] \in {"promise", "before"} /\ IsPost(ropts[c])

BeforeHookSettled(c) == rpc[c] = "before"

\* .then(() => { escapeCodeBlocks; if (disableNunjucks === false)
\*     escapeAllSwigTags; return ctx.render.render({..., onRenderEnd}) })
EscapeAndRender ==
    \E c \in RenderCalls :
        /\ BeforeHookSettled(c)
        /\ LET t   == CacheObj(c)
               e1  == EscapeCodeBlocks(rcontent[c], tables[t])
               esc == DisableNunjucks(ropts[c]) = "false"
               e2  == IF esc THEN EscapeAllSwigTags(e1.text, e1.cache) ELSE e1
               l1  == Append(rlog[c], Entry("escapeCodeBlocks", rcontent[c]))
               l2  == IF esc THEN Append(l1, Entry("escapeAllSwigTags", e1.text))
                             ELSE l1
           IN /\ rcontent' = [rcontent EXCEPT ![c] = e2.text]
              /\ tables' = [tables EXCEPT ![t] = e2.cache]
              /\ rlog' = [rlog EXCEPT ![c] = Append(l2, Entry("render.render", e2.text))]
        /\ rpc' = [rpc EXCEPT ![c] = "render"]
        /\ UNCHANGED <<ropts, rvalue, rout>>
        /\ UNCHANGED <<scanVars, scafVars, postVars>>

\* onRenderEnd(content): restoreAllSwigTags, then either the restored text
\* is the renderer's output or tag.render is called on it
OnRenderEnd ==
    \E c \in RenderCalls :
        /\ rpc[c] = "render"
        /\ LET t == CacheObj(c)
               content == RendererOutput(rcontent[c], ropts[c].encodes)
               r == RestoreAllSwigTags(content, tables[t])
               l1 == Append(rlog[c], Entry("restoreAllSwigTags", content))
           IN /\ tables' = [tables EXCEPT ![t] = r.cache]
              /\ IF ~r.ok
                 THEN /\ rpc' = [rpc EXCEPT ![c] = "done"]
                      /\ rout' = [rout EXCEPT ![c] = RenderRejected("restoreAllSwigTags")]
                      /\ rlog' = [rlog EXCEPT ![c] = l1]
                      /\ UNCHANGED <<rcontent, rvalue>>
                 ELSE IF DisableNunjucks(ropts[c]) = "true"
                 THEN /\ rpc' = [rpc EXCEPT ![c] = "rendered"]
                      /\ rcontent' = [rcontent EXCEPT ![c] = r.text]
                      /\ rvalue' = [rvalue EXCEPT ![c] = r.text]
                      /\ rlog' = [rlog EXCEPT ![c] = l1]
                      /\ UNCHANGED rout
                 ELSE /\ rpc' = [rpc EXCEPT ![c] = "tagRender"]
                      /\ rcontent' = [rcontent EXCEPT ![c] = r.text]
                      /\ rlog' = [rlog EXCEPT ![c] = Append(l1, Entry("tag.render", r.text))]
                      /\ UNCHANGED <<rvalue, rout>>
        /\ UNCHANGED ropts
        /\ UNCHANGED <<scanVars, scafVars, postVars>>

\* the renderer fails before it calls onRenderEnd
RendererRejects ==
    \E c \in RenderCalls :
        /\ rpc[c] = "render"
        /\ rpc' = [rpc EXCEPT ![c] = "done"]
        /\ rout' = [rout EXCEPT ![c] = RenderRejected("render.render")]
        /\ UNCHANGED <<ropts, rcontent, rvalue, tables, rlog>>
        /\ UNCHANGED <<scanVars, scafVars, postVars>>

\* tag.render(data.content, data) resolves: its output is what
\* ctx.render.render resolves with
TagRenderResolves ==
    \E c \in RenderCalls :
        /\ rpc[c] = "tagRender"
        /\ TagRender(rcontent[c]).ok
        /\ rvalue' = [rvalue EXCEPT ![c] = TagRender(rcontent[c]).text]
        /\ rpc' = [rpc EXCEPT ![c] = "rendered"]
        /\ UNCHANGED <<ropts, rcontent, tables, rlog, rout>>
        /\ UNCHANGED <<scanVars, scafVars, postVars>>

TagRenderRejects ==
    \E c \in RenderCalls :
        /\ rpc[c] = "tagRender"
        /\ rpc' = [rpc EXCEPT ![c] = "done"]
        /\ rout' = [rout EXCEPT ![c] = RenderRejected("tag.render")]
        /\ UNCHANGED <<ropts, rcontent, rvalue, tables, rlog>>
        /\ UNCHANGED <<scanVars, scafVars, postVars>>

\* the last callback runs when ctx.render.render has resolved
RenderSettledEarly(c) == rpc[c] \in {"tagRender", "rendered"}

RenderSettled(c) == rpc[c] = "rendered"

\* .then(content => { data.content = cacheObj.restoreCodeBlocks(content);
\*     return ctx.execFilter('after_post_render', data, ...) })
RestoreAndAfterPostRender ==
    \E c \in RenderCalls :
        /\ RenderSettled(c)
        /\ LET t == CacheObj(c)
               r == RestoreCodeBlocks(rvalue[c], tables[t])
               l1 == Append(rlog[c], Entry("restoreCodeBlocks", rvalue[c]))
           IN /\ tables' = [tables EXCEPT ![t] = r.cache]
              /\ IF ~r.ok
                 THEN /\ rpc' = [rpc EXCEPT ![c] = "done"]
                      /\ rout' = [rout EXCEPT ![c] = RenderRejected("restoreCodeBlocks")]
                      /\ rlog' = [rlog EXCEPT ![c] = l1]
                      /\ UNCHANGED rcontent
                 ELSE /\ rpc' = [rpc EXCEPT ![c] = "after"]
                      /\ rcontent' = [rcontent EXCEPT ![c] = r.text]
                      /\ rlog' = [rlog EXCEPT ![c] = Append(l1, Entry("after_post_render", r.text))]
                      /\ UNCHANGED rout
        /\ UNCHANGED <<ropts, rvalue>>
        /\ UNCHANGED <<scanVars, scafVars, postVars>>

AfterHookResolves ==
    \E c \in RenderCalls :
        /\ rpc[c] = "after"
        /\ rpc' = [rpc EXCEPT ![c] = "done"]
        /\ rout' = [rout EXCEPT ![c] = RenderResolved]
        /\ UNCHANGED <<ropts, rcontent, rvalue, tables, rlog>>
        /\ UNCHANGED <<scanVars, scafVars, postVars>>

AfterHookRejects ==
    \E c \in RenderCalls :
        /\ rpc[c] = "after"
        /\ rpc' = [rpc EXCEPT ![c] = "done"]
        /\ rout' = [rout EXCEPT ![c] = RenderRejected("after_post_render")]
        /\ UNCHANGED <<ropts, rcontent, rvalue, tables, rlog>>
        /\ UNCHANGED <<scanVars, scafVars, postVars>>

NextRender ==
    \/ RenderCall
    \/ RenderReadDone
    \/ RenderReadFails
    \/ PassThrough
    \/ PassThroughDone
    \/ PassThroughFails
    \/ BeforePostRender
    \/ BeforeHookRejects
    \/ EscapeAndRender
    \/ OnRenderEnd
    \/ RendererRejects
    \/ TagRenderResolves
    \/ TagRenderRejects
    \/ RestoreAndAfterPostRender
    \/ AfterHookResolves
    \/ AfterHookRejects

----------------------------------------------------------------------------
(* The specifications *)

InitScanOnly     == InitScan /\ IdleScaffold /\ IdlePost /\ IdleRender
InitScaffoldOnly == InitScaffold /\ IdleScan /\ IdlePost /\ IdleRender
InitPostOnly     == InitPost /\ IdleScan /\ IdleScaffold /\ IdleRender
InitRenderOnly   == InitRender /\ IdleScan /\ IdleScaffold /\ IdlePost
InitRenderPairOnly == InitRenderPair /\ IdleScan /\ IdleScaffold /\ IdlePost

SpecScan     == InitScanOnly /\ [][NextScan]_vars
SpecScaffold == InitScaffoldOnly /\ [][NextScaffold]_vars
SpecPost     == InitPostOnly /\ [][NextPost]_vars
SpecRender   == InitRenderOnly /\ [][NextRender]_vars
SpecRenderPair == InitRenderPairOnly /\ [][NextRender]_vars

----------------------------------------------------------------------------
(* Claims about publish and create (SpecPost) *)

Logged(op) == { i \in 1..Len(log) : log[i].op = op }

EarlyStages == {"listDir", "find", "readFile", "create"}
CleanupStages == {"unlink", "exists", "copyDir", "rmdir"}

\* C1: the draft is unlinked only after create has resolved, so after the
\* write of the new document took effect; and when the lookup, the read or
\* create fails, nothing is unlinked and every draft file is still there,
\* unchanged, from the moment publish reports the failure.
C1_DraftDeletedAfterCreate ==
    /\ \A i \in Logged("unlink") :
          /\ log[i].path = src
          /\ cstate = "resolved"
          /\ \E j \in Logged("writeFile") : j < i /\ log[j].path = created.path
    /\ (outcome.status = "rejected" /\ outcome.stage \in EarlyStages) =>
          /\ Logged("unlink") = {}
          /\ \A f \in DOMAIN cfg.files0 :
                f \in DOMAIN files /\ files[f] = cfg.files0[f]

\* publish resolved after it unlinked the draft
C1_Witness ==
    /\ outcome.status = "resolved"
    /\ Logged("unlink") # {}
    /\ src \notin DOMAIN files
    /\ created.path \in DOMAIN files

\* item is named after slug: it starts with slug and goes on with at least
\* one character that is no path separator
NamedAfter(slug, item) ==
    /\ Len(item) >= Len(slug) + 1
    /\ \A k \in 1..Len(slug) : item[k] = slug[k]
    /\ item[Len(slug) + 1] # "/" /\ item[Len(slug) + 1] # "\\"

CallerSlug == slugize(cfg.data.slug, cfg.filename_case)

NoDraftListed ==
    /\ listing.done
    /\ \A i \in 1..Len(listing.items) : ~NamedAfter(CallerSlug, listing.items[i])

\* C2: when no entry of the drafts listing is named after the slug, publish
\* fails with an error that names the slugified slug, create is never
\* called, no event is emitted and the file system is left as it was.
C2_NoDraftNoEffect ==
    NoDraftListed =>
        /\ outcome.status = "rejected"
        /\ outcome.stage = "find"
        /\ HasSub(outcome.error, CallerSlug)
        /\ log = <<>>
        /\ events = <<>>
        /\ cstate = "idle" /\ cwrite = "idle" /\ cfolder = "idle"
        /\ files = cfg.files0
        /\ dirs = cfg.dirs0

\* the listing has entries, none of them named after the slug
C2_Witness ==
    /\ NoDraftListed
    /\ listing.items # <<>>
    /\ outcome.status = "rejected"

\* C3: once create has written the new document, it stays as written
\* whatever publish does next; and publish resolves only when the draft was
\* unlinked and the asset folder, if there was one to migrate, was copied
\* and removed: every failure of these steps is reported.
C3_CreatedDocumentStays ==
    /\ cstate = "resolved" =>
          /\ created.path \in DOMAIN files
          /\ files[created.path] = created.content
    /\ (outcome.status = "rejected" /\ outcome.stage \in CleanupStages) =>
          cstate = "resolved"
    /\ (outcome.status = "resolved" /\ src # <<>>) =>
          /\ Logged("unlink") # {}
          /\ (cfg.post_asset_folder /\ removeExtname(src) \in cfg.dirs0) =>
                (Logged("copyDir") # {} /\ Logged("rmdir") # {})

\* the copy of the asset folder failed after the draft was unlinked
C3_Witness ==
    /\ outcome.status = "rejected"
    /\ outcome.stage = "copyDir"
    /\ Logged("unlink") # {}
    /\ created.path \in DOMAIN files

\* publish has folded the draft into data and handed it to create
DraftFolded == src # <<>> /\ cstate # "idle"

\* C4 as stated: a field given by the caller and by the draft's front
\* matter reaches create with the caller's value (as publish normalised it).
C4_CallerFieldsWin ==
    DraftFolded =>
        \A k \in DOMAIN cfg.data \cap DOMAIN cfg.files0[src].fm :
            handed[k] = PublishNormalise(cfg.data, cfg)[k]

\* C4 as amended: every field of the draft's front matter reaches create
\* with the draft's value, also where the caller gave one; a caller's field
\* is kept where the draft has none; content is the draft's body, whatever
\* content the caller gave.
C4_DraftFieldsWin ==
    DraftFolded =>
        LET draft == cfg.files0[src] IN
        /\ \A k \in DOMAIN draft.fm : handed[k] = draft.fm[k]
        /\ \A k \in DOMAIN cfg.data \ (DOMAIN draft.fm \cup {"content"}) :
              handed[k] = PublishNormalise(cfg.data, cfg)[k]
        /\ handed["content"] = draft.body
        /\ handed["_content"] = Undefined

\* caller and draft both gave a title and a layout, the caller a content
C4_Witness ==
    /\ DraftFolded
    /\ {"title", "layout"} \subseteq (DOMAIN cfg.data \cap DOMAIN cfg.files0[src].fm)
    /\ "content" \in DOMAIN cfg.data

\* C5: create writes the document once, to the path new_post_path resolved
\* with, and emits 'new' once, with that path, after the write and the
\* asset-folder step have both completed; a create that fails emits nothing.
C5_OneWriteOneEvent ==
    /\ Len(events) <= 1
    /\ Cardinality(Logged("writeFile")) <= 1
    /\ \A i \in Logged("writeFile") : log[i].path = cpath.v
    /\ events # <<>> =>
          /\ cwrite = "done" /\ cfolder = "done"
          /\ Cardinality(Logged("writeFile")) = 1
          /\ events[1].path = cpath.v
          /\ events[1] = created
          /\ (cfg.post_asset_folder /\ Basename(removeExtname(cpath.v)) # <<"index">>)
                => removeExtname(cpath.v) \in dirs
    /\ cstate = "resolved" => Len(events) = 1
    /\ cstate = "rejected" => events = <<>>

\* create resolved after it made the asset folder
C5_Witness ==
    /\ cstate = "resolved"
    /\ Len(events) = 1
    /\ Logged("mkdirs") # {}
    /\ Logged("writeFile") # {}


\* C18: the write of the document and the asset-folder step are started
\* only with the destination path and the rendered scaffold both resolved; a
\* create whose path resolution or scaffold rendering failed is rejected,
\* has written no file, made no directory and emitted no event.
C18_WriteAfterPathAndScaffold ==
    /\ (cwrite # "idle" \/ cfolder # "idle") =>
          (cpath.st = "resolved" /\ ccontent.st = "resolved")
    /\ (Logged("writeFile") # {} \/ Logged("mkdirs") # {} \/ events # <<>>) =>
          (cpath.st = "resolved" /\ ccontent.st = "resolved")
    /\ (cpath.st = "rejected" \/ ccontent.st = "rejected") =>
          /\ cstate = "rejected"
          /\ cwrite = "idle" /\ cfolder = "idle"
          /\ events = <<>>
          /\ files = cfg.files0
          /\ dirs = cfg.dirs0

\* the scaffold rendering failed after the path had resolved
C18_Witness ==
    /\ cpath.st = "resolved"
    /\ ccontent.st = "rejected"
    /\ cstate = "rejected"
    /\ outcome.status = "rejected"
    /\ files = cfg.files0

AssetSrc == removeExtname(src)

\* C19: the draft's asset folder is removed only after copyDir has
\* succeeded; when copyDir fails the folder and the files in it are still
\* there; and with asset folders disabled, or no asset folder next to the
\* draft, publish calls neither copyDir nor rmdir.
C19_AssetFolderRemovedAfterCopy ==
    /\ \A i \in Logged("rmdir") :
          /\ log[i].path = AssetSrc
          /\ \E j \in Logged("copyDir") :
                j < i /\ log[j].path = removeExtname(result.path)
    /\ (outcome.status = "rejected" /\ outcome.stage = "copyDir") =>
          /\ AssetSrc \in dirs
          /\ Logged("rmdir") = {}
          /\ \A f \in DOMAIN cfg.files0 :
                IsUnder(f, AssetSrc) => (f \in DOMAIN files /\ files[f] = cfg.files0[f])
    /\ (~cfg.post_asset_folder \/ AssetSrc \notin cfg.dirs0) =>
          (Logged("copyDir") = {} /\ Logged("rmdir") = {})

\* the asset folder was copied next to the new document and then removed
C19_Witness ==
    /\ outcome.status = "resolved"
    /\ Logged("rmdir") # {}
    /\ AssetSrc \notin dirs
    /\ removeExtname(result.path) \in dirs
    /\ \E f \in DOMAIN files : IsUnder(f, removeExtname(result.path))

----------------------------------------------------------------------------
(* Claims about render (SpecRender, SpecRenderPair) *)

Called(c) == rpc[c] # "unused"

\* the source is declared and its output is neither html nor htm
DeclaredPassThrough(o) ==
    /\ o.dataSource # Undefined
    /\ extname(o.dataSource) # ".md"

PostLike(o) == ~DeclaredPassThrough(o)

RenderOps(lg) == IF lg = <<>> THEN <<>> ELSE [i \in 1..Len(lg) |-> lg[i].op]

At(c, op) == { i \in 1..Len(rlog[c]) : rlog[c][i].op = op }

IsPrefix(a, b) == Len(a) <= Len(b) /\ SubSeq(b, 1, Len(a)) = a

\* the stages C11 names, with and without the tag escaping
NamedStages ==
    {"before_post_render", "escapeCodeBlocks", "escapeAllSwigTags",
     "render.render", "restoreCodeBlocks", "after_post_render"}

IsNamedStage(e) == e.op \in NamedStages

StagesWithTags ==
    <<"before_post_render", "escapeCodeBlocks", "escapeAllSwigTags",
      "render.render", "restoreCodeBlocks", "after_post_render">>

StagesWithoutTags ==
    <<"before_post_render", "escapeCodeBlocks",
      "render.render", "restoreCodeBlocks", "after_post_render">>

StagesOf(c) == RenderOps(SelectSeq(rlog[c], IsNamedStage))

\* C11: for post-like content the stages run in the order
\* before_post_render, escapeCodeBlocks, escapeAllSwigTags (when it runs),
\* the renderer, restoreCodeBlocks, after_post_render, each at most once and
\* none before the one ahead of it; a render that resolves ran them all, and
\* the renderer is invoked only with the before hook dispatched and resolved.
C11_StagesInOrder ==
    \A c \in RenderCalls :
        (Called(c) /\ PostLike(ropts[c])) =>
            /\ \/ IsPrefix(StagesOf(c), StagesWithTags)
               \/ IsPrefix(StagesOf(c), StagesWithoutTags)
            /\ rout[c].status = "resolved" =>
                   StagesOf(c) \in {StagesWithTags, StagesWithoutTags}
            /\ rpc[c] \in {"promise", "readFile", "idle", "before"} =>
                   At(c, "escapeCodeBlocks") \cup At(c, "render.render") = {}

\* a render of a text with a code block and a tag went through every stage
C11_Witness ==
    /\ rout[1].status = "resolved"
    /\ StagesOf(1) = StagesWithTags
    /\ tables[1] # <<>>
    /\ HasSub(ropts[1].text, <<CodeOpen>>)

\* C12: for pass-through content render calls the renderer once and nothing
\* else: no hook, no escaping, no restoration, no template engine, and the
\* escape table of the call stays empty.
C12_PassThroughRendersOnce ==
    \A c \in RenderCalls :
        (Called(c) /\ DeclaredPassThrough(ropts[c])) =>
            /\ \A i \in 1..Len(rlog[c]) :
                  rlog[c][i].op \in {"readFile", "render.render"}
            /\ Cardinality(At(c, "render.render")) <= 1
            /\ rout[c].status = "resolved" =>
                  Cardinality(At(c, "render.render")) = 1
            /\ tables[c] = <<>>

\* a style sheet whose text holds a code block and a tag was rendered
C12_Witness ==
    /\ DeclaredPassThrough(ropts[1])
    /\ rout[1].status = "resolved"
    /\ Len(ropts[1].text) > 5
    /\ rcontent[1] = ropts[1].text
    /\ At(1, "render.render") # {}

\* the disable flag as C13 reads it: the per-call boolean when one is given,
\* else the flag of the renderer registered for the extension
DisabledAsStated(o) ==
    IF o.override \in {"true", "false"} THEN o.override = "true"
    ELSE Ext(o) # "" /\ o.reg = "disables"

HoldsVariableTag(str) == HasSub(str, <<"{", "{", "x", "}", "}">>)

\* C13: a post-like render of a text with a tag in it that reaches the
\* renderer has escaped the templating tags exactly when escaping was not
\* disabled by the per-call override or, without one, by the renderer of
\* the extension.
C13_EscapesUnlessDisabled ==
    \A c \in RenderCalls :
        ( /\ Called(c) /\ PostLike(ropts[c])
          /\ HoldsVariableTag(ropts[c].text)
          /\ At(c, "render.render") # {} ) =>
            (At(c, "escapeAllSwigTags") # {} <=> ~DisabledAsStated(ropts[c]))

\* C14: in a post-like render of a text with a tag in it, once the
\* completion callback has restored the tags, the template engine is called
\* exactly when escapeAllSwigTags was applied before the renderer ran.
C14_EscapeIffTemplateRender ==
    \A c \in RenderCalls :
        ( /\ Called(c) /\ PostLike(ropts[c])
          /\ HoldsVariableTag(ropts[c].text)
          /\ At(c, "restoreAllSwigTags") # {}
          /\ rout[c].stage # "restoreAllSwigTags" ) =>
            (At(c, "escapeAllSwigTags") # {} <=> At(c, "tag.render") # {})

\* the text inside the code block of RenderPieces
CodeBlockText == <<"{", "{", "y", "}", "}">>

HoldsTagPlaceholder(str) == \E i \in 1..Len(str) : str[i] \in SwigOpeners

\* tags are restored before code blocks, and code blocks in what the
\* template engine returned
RestoredInOrder(c) ==
    /\ \A i \in At(c, "restoreCodeBlocks") :
          /\ \E j \in At(c, "restoreAllSwigTags") : j < i
          /\ \A j \in At(c, "tag.render") :
                /\ j < i
                /\ TagRender(rlog[c][j].text).ok
                /\ rlog[c][i].text = TagRender(rlog[c][j].text).text

\* the text of a code block reaches neither the scanner nor the engine
CodeTextUnseen(c) ==
    \A i \in At(c, "escapeAllSwigTags") \cup At(c, "tag.render") :
        ~HasSub(rlog[c][i].text, CodeBlockText)

\* C15 as stated: in every post-like render the tags are restored before
\* the code blocks, the code blocks after the template engine returned, and
\* the text of a code block is never scanned by escapeAllSwigTags and never
\* passed to the template engine.
C15_CodeTextNeverSeen ==
    \A c \in RenderCalls :
        (Called(c) /\ PostLike(ropts[c])) =>
            (RestoredInOrder(c) /\ CodeTextUnseen(c))

\* C15 as amended: the order holds in every post-like render; the text of a
\* code block stays away from the scanner in every render, and from the
\* template engine in every render of a text that holds no tag placeholder
\* of its own.
C15_CodeTextUnseenIfNoPlaceholder ==
    \A c \in RenderCalls :
        (Called(c) /\ PostLike(ropts[c])) =>
            /\ RestoredInOrder(c)
            /\ \A i \in At(c, "escapeAllSwigTags") :
                  ~HasSub(rlog[c][i].text, CodeBlockText)
            /\ ~HoldsTagPlaceholder(ropts[c].text) => CodeTextUnseen(c)

\* a text with a tag and a code block was rendered, the engine was called
\* and the code block is back in the result
C15_Witness ==
    /\ rout[1].status = "resolved"
    /\ ~HoldsTagPlaceholder(ropts[1].text)
    /\ At(1, "escapeAllSwigTags") # {}
    /\ At(1, "tag.render") # {}
    /\ HoldsVariableTag(ropts[1].text)
    /\ HasSub(rcontent[1], CodeBlockText)

\* what a post-like render with these arguments comes to when no other call
\* is in flight and no collaborator fails: the stage whose assertion or
\* template error ends it, or the content it resolves with
RenderAlone(o) ==
    LET e1 == EscapeCodeBlocks(o.text, <<>>)
        e2 == IF DisableNunjucks(o) = "false"
              THEN EscapeAllSwigTags(e1.text, e1.cache) ELSE e1
        r1 == RestoreAllSwigTags(RendererOutput(e2.text, o.encodes), e2.cache)
        t  == IF DisableNunjucks(o) = "true"
              THEN [ok |-> TRUE, text |-> r1.text] ELSE TagRender(r1.text)
        r2 == RestoreCodeBlocks(t.text, r1.cache)
    IN IF ~r1.ok THEN [stage |-> "restoreAllSwigTags", text |-> <<>>]
       ELSE IF ~t.ok THEN [stage |-> "tag.render", text |-> <<>>]
       ELSE IF ~r2.ok THEN [stage |-> "restoreCodeBlocks", text |-> <<>>]
       ELSE [stage |-> "", text |-> r2.text]

SameAsAlone(c) ==
    /\ rout[c].status = "resolved" =>
          /\ RenderAlone(ropts[c]).stage = ""
          /\ rcontent[c] = RenderAlone(ropts[c]).text
    /\ rout[c].stage \in {"restoreAllSwigTags", "restoreCodeBlocks"} =>
          RenderAlone(ropts[c]).stage = rout[c].stage

Stepped(c) == rpc'[c] # rpc[c]

\* C17: with two renders in flight, a step of one call leaves the escape
\* table of the other call as it is, and each call ends as it would have
\* ended alone: with the same content, or at the same failed assertion.
C17_OwnTableOnly ==
    /\ [](\A c \in RenderCalls :
              (Called(c) /\ PostLike(ropts[c])) => SameAsAlone(c))
    /\ [][\A c \in RenderCalls : \A d \in RenderCalls \ {c} :
              Stepped(c) => tables'[d] = tables[d]]_vars

\* both calls have escaped a tag into index 0 of their tables and neither
\* has restored it yet
C17_Witness ==
    \A c \in RenderCalls :
        /\ rpc[c] = "render"
        /\ Len(tables[c]) = 1
        /\ tables[c][1] # Null
        /\ HoldsTagPlaceholder(rcontent[c])

====
